---- MODULE Spec2Model ----
(***************************************************************************)
(* pcp, the Prompt Composition Processor: a model of the two-pass engine   *)
(* (validation walk, execution walk, rendering) of processPromptFile.      *)
(*                                                                         *)
(* Strings are sequences of atoms.  An atom is a whitespace character      *)
(* (" ", "\n"), the path separator "/", or a run of non-blank characters   *)
(* that the engine never splits.  Paths are strings in this sense, so      *)
(* filepath.Join, Dir, Abs and Clean are computed on them.                 *)
(***************************************************************************)
EXTENDS Integers, Sequences, FiniteSets, TLC

\* ------------------------------------------------------------------------
\* Strings
\* ------------------------------------------------------------------------
NL == "\n"
SP == " "
SEP == "/"

\* unicode.IsSpace, restricted to the atoms of the model
IsSpace(c) == c \in {SP, NL}

\* an optional value (a Go pointer field): <<>> is nil, <<v>> is set
None == <<>>
Some(v) == <<v>>

Last(s) == s[Len(s)]
Front(s) == SubSeq(s, 1, Len(s) - 1)

RECURSIVE Flatten(_)
Flatten(ss) == IF ss = <<>> THEN <<>> ELSE Head(ss) \o Flatten(Tail(ss))

\* ------------------------------------------------------------------------
\* path/filepath (Unix)
\* ------------------------------------------------------------------------
IsAbs(p) == Len(p) > 0 /\ p[1] = SEP

\* the elements of a path: the atoms between separators
Comps(p) == SelectSeq(p, LAMBDA c : c # SEP)

\* the lexical processing of filepath.Clean on the elements of a path
RECURSIVE CleanComps(_, _, _)
CleanComps(cs, abs, out) ==
    IF cs = <<>> THEN out
    ELSE LET c == Head(cs)
             rest == Tail(cs)
         IN  IF c = "." THEN CleanComps(rest, abs, out)
             ELSE IF c = ".."
                  THEN IF out # <<>> /\ Last(out) # ".."
                       THEN CleanComps(rest, abs, Front(out))
                       ELSE IF abs THEN CleanComps(rest, abs, out)
                            ELSE CleanComps(rest, abs, Append(out, c))
                  ELSE CleanComps(rest, abs, Append(out, c))

RECURSIVE JoinComps(_)
JoinComps(cs) ==
    IF cs = <<>> THEN <<>>
    ELSE IF Len(cs) = 1 THEN <<cs[1]>>
    ELSE <<cs[1], SEP>> \o JoinComps(Tail(cs))

Clean(p) ==
    LET cs == CleanComps(Comps(p), IsAbs(p), <<>>)
    IN  IF IsAbs(p) THEN <<SEP>> \o JoinComps(cs)
        ELSE IF cs = <<>> THEN <<".">> ELSE JoinComps(cs)

Join(a, b) ==
    IF a = <<>> /\ b = <<>> THEN <<>>
    ELSE IF a = <<>> THEN Clean(b)
    ELSE IF b = <<>> THEN Clean(a)
    ELSE Clean(a \o <<SEP>> \o b)

\* index of the last separator of p, 0 when there is none
LastSep(p) ==
    LET idx == {i \in 1..Len(p) : p[i] = SEP}
    IN  IF idx = {} THEN 0 ELSE CHOOSE i \in idx : \A j \in idx : j <= i

Dir(p) == Clean(SubSeq(p, 1, LastSep(p)))

\* the working directory of the process
Cwd == <<SEP, "a">>

Abs(p) == IF IsAbs(p) THEN Clean(p) ELSE Join(Cwd, p)

\* ------------------------------------------------------------------------
\* Document model (types.go)
\* ------------------------------------------------------------------------
FileOp == "FileOp"
PromptOp == "PromptOp"
CommandOp == "CommandOp"
TextOp == "TextOp"

\* an Operation: four optional string fields
Operation(f, p, c, t) == [File |-> f, Prompt |-> p, Command |-> c, Text |-> t]

NoError == [kind |-> "nil"]
ErrOperationEmpty == [kind |-> "OperationEmpty"]
ErrOperationMultiple == [kind |-> "OperationMultiple"]
ErrMissingPromptKey == [kind |-> "MissingPromptKey"]
ErrInvalidYAML(file) == [kind |-> "InvalidYAML", File |-> file]
ErrFileNotFound(file) == [kind |-> "FileNotFound", File |-> file]
ErrBinaryFile(file) == [kind |-> "BinaryFile", File |-> file]
ErrCircularReference(file, path) ==
    [kind |-> "CircularReference", File |-> file, Path |-> path]
ErrCommandFailed(command) == [kind |-> "CommandFailed", Command |-> command]
ErrWordLimitExceeded(current, limit) ==
    [kind |-> "WordLimitExceeded", Current |-> current, Limit |-> limit]
ErrReadFailed(file) == [kind |-> "ReadFailed", File |-> file]
ErrWriteFailed(file) == [kind |-> "WriteFailed", File |-> file]

\* number of populated variants of an operation
Populated(op) ==
    (IF op.File # None THEN 1 ELSE 0) + (IF op.Prompt # None THEN 1 ELSE 0)
    + (IF op.Command # None THEN 1 ELSE 0) + (IF op.Text # None THEN 1 ELSE 0)

\* several populated fields accepted, the last one setting the type
GetTypeLastWins(op) ==
    LET opType == IF op.Text # None THEN TextOp
                  ELSE IF op.Command # None THEN CommandOp
                  ELSE IF op.Prompt # None THEN PromptOp
                  ELSE FileOp
    IN  IF Populated(op) = 0 THEN [type |-> FileOp, err |-> ErrOperationEmpty]
        ELSE [type |-> opType, err |-> NoError]

\* Operation.GetType: the last populated field sets the type, the count
\* of populated fields decides the error
GetType(op) ==
    LET opType == IF op.Text # None THEN TextOp
                  ELSE IF op.Command # None THEN CommandOp
                  ELSE IF op.Prompt # None THEN PromptOp
                  ELSE FileOp
    IN  IF Populated(op) = 0 THEN [type |-> FileOp, err |-> ErrOperationEmpty]
        ELSE IF Populated(op) > 1
             THEN [type |-> FileOp, err |-> ErrOperationMultiple]
        ELSE [type |-> opType, err |-> NoError]

\* Operation.GetValue: the first populated field
GetValue(op) ==
    IF op.File # None THEN op.File[1]
    ELSE IF op.Prompt # None THEN op.Prompt[1]
    ELSE IF op.Command # None THEN op.Command[1]
    ELSE IF op.Text # None THEN op.Text[1]
    ELSE <<>>

ContentSection(source, content, type) ==
    [Source |-> source, Content |-> content, Type |-> type]

\* ------------------------------------------------------------------------
\* ProcessingContext (types.go)
\* ------------------------------------------------------------------------
\* a context whose base directory is the working directory
NewProcessingContextHere(basePath, maxWords, delimiterStyle) ==
    [basePath |-> <<".">>, visitedFiles |-> {}, maxWords |-> maxWords,
     wordCount |-> 0, delimiterStyle |-> delimiterStyle]

NewProcessingContext(basePath, maxWords, delimiterStyle) ==
    [basePath |-> Dir(basePath), visitedFiles |-> {}, maxWords |-> maxWords,
     wordCount |-> 0, delimiterStyle |-> delimiterStyle]

MarkVisited(c, path) ==
    [c EXCEPT !.visitedFiles = c.visitedFiles \cup {Abs(path)}]

IsVisited(c, path) == Abs(path) \in c.visitedFiles

ResolvePath(c, path) == IF IsAbs(path) THEN path ELSE Join(c.basePath, path)

\* delete(ctx.visitedFiles, key)
DeleteVisited(c, key) == [c EXCEPT !.visitedFiles = c.visitedFiles \ {key}]

\* a total equal to the limit taken as exceeding it
AddWordsInclusive(c, count) ==
    LET c1 == [c EXCEPT !.wordCount = c.wordCount + count]
    IN  [ctx |-> c1,
         err |-> IF c1.wordCount >= c1.maxWords
                 THEN ErrWordLimitExceeded(c1.wordCount, c1.maxWords)
                 ELSE NoError]

\* AddWords: the total is updated before the limit is compared
AddWords(c, count) ==
    LET c1 == [c EXCEPT !.wordCount = c.wordCount + count]
    IN  [ctx |-> c1,
         err |-> IF c1.wordCount > c1.maxWords
                 THEN ErrWordLimitExceeded(c1.wordCount, c1.maxWords)
                 ELSE NoError]

\* the keys of the visited map; Go iterates a map in no fixed order, so the
\* model keeps the paths as a set
getVisitedPaths(c) == c.visitedFiles

\* ------------------------------------------------------------------------
\* processor.go: pure helpers
\* ------------------------------------------------------------------------
\* countWords: len(strings.Fields(text)), the number of maximal runs of
\* non-blank atoms
countWords(text) ==
    IF text = <<>> THEN 0
    ELSE Cardinality({i \in 1..Len(text) :
            /\ ~IsSpace(text[i])
            /\ (i = 1 \/ IsSpace(text[i - 1]))})

Banner == "----------------------------------"

\* the style none given the header of the default branch
formatSectionHeaderAlways(source, delimiterStyle) ==
    CASE delimiterStyle = "minimal" ->
            <<NL, "===", SP, "PCP", SP, "SOURCE:", SP>> \o source \o <<SP, "===", NL>>
      [] delimiterStyle = "full" ->
            <<NL, Banner, NL, "BEGIN:", SP>> \o source \o <<NL, Banner, NL>>
      [] OTHER ->
            <<NL, "<!--", SP, "pcp-source:", SP>> \o source \o <<SP, "-->", NL>>

formatSectionHeader(source, delimiterStyle) ==
    CASE delimiterStyle = "xml" ->
            <<NL, "<!--", SP, "pcp-source:", SP>> \o source \o <<SP, "-->", NL>>
      [] delimiterStyle = "minimal" ->
            <<NL, "===", SP, "PCP", SP, "SOURCE:", SP>> \o source \o <<SP, "===", NL>>
      [] delimiterStyle = "none" -> <<NL>>
      [] delimiterStyle = "full" ->
            <<NL, Banner, NL, "BEGIN:", SP>> \o source \o <<NL, Banner, NL>>
      [] OTHER ->
            <<NL, "<!--", SP, "pcp-source:", SP>> \o source \o <<SP, "-->", NL>>

\* strings.TrimLeft(s, "\n") and strings.TrimRight(s, "\n")
RECURSIVE TrimLeftNL(_)
TrimLeftNL(s) ==
    IF s # <<>> /\ Head(s) = NL THEN TrimLeftNL(Tail(s)) ELSE s

RECURSIVE TrimRightNL(_)
TrimRightNL(s) ==
    IF s # <<>> /\ Last(s) = NL THEN TrimRightNL(Front(s)) ELSE s

\* the sections joined and closed by a line terminator, nothing trimmed
compileOutputUntrimmed(sections, delimiterStyle) ==
    LET piece(i) ==
            (IF delimiterStyle # "none"
             THEN formatSectionHeader(sections[i].Source, delimiterStyle)
             ELSE <<>>)
            \o sections[i].Content
    IN  Flatten([i \in 1..Len(sections) |-> piece(i)]) \o <<NL>>

\* the leading line terminator removed from the header of every section
compileOutputTrimAll(sections, delimiterStyle) ==
    LET piece(i) ==
            (IF delimiterStyle # "none"
             THEN TrimLeftNL(formatSectionHeader(sections[i].Source, delimiterStyle))
             ELSE <<>>)
            \o sections[i].Content
        result == Flatten([i \in 1..Len(sections) |-> piece(i)])
    IN  TrimRightNL(result) \o <<NL>>

\* compileOutput (main.go)
compileOutput(sections, delimiterStyle) ==
    LET piece(i) ==
            (IF delimiterStyle # "none"
             THEN IF i = 1
                  THEN TrimLeftNL(formatSectionHeader(sections[i].Source, delimiterStyle))
                  ELSE formatSectionHeader(sections[i].Source, delimiterStyle)
             ELSE <<>>)
            \o sections[i].Content
        result == Flatten([i \in 1..Len(sections) |-> piece(i)])
    IN  TrimRightNL(result) \o <<NL>>

\* the content a prompt operation builds from its child sections
\* (processPromptOperation, the combinedContent loop)
CombinedContent(promptPath, allSections, delimiterStyle) ==
    LET piece(i) ==
            (IF i > 1 THEN <<NL>> ELSE <<>>)
            \o formatSectionHeader(promptPath \o <<"->">> \o allSections[i].Source,
                                   delimiterStyle)
            \o allSections[i].Content
    IN  Flatten([i \in 1..Len(allSections) |-> piece(i)])

\* ------------------------------------------------------------------------
\* The environment: prompt documents, data files, shell commands
\* ------------------------------------------------------------------------
\* bounds of the model
MaxOps == 2
SmallBudget == 2

\* flag default of -max-words (main.go)
DefaultMaxWords == 128000
\* isBinaryFile inspects this many leading bytes
BinaryProbe == 512

SeqsUpTo(S, n) == UNION {[1..k -> S] : k \in 0..n}

\* paths as written in documents and on the command line
relMain == <<"main.yml">>
relN == <<"n.yml">>
relSubN == <<"sub", SEP, "n.yml">>
upMain == <<"..", SEP, "main.yml">>
relF == <<"f.txt">>
\* the files they can name
absMain == Cwd \o <<SEP, "main.yml">>
absN == Cwd \o <<SEP, "n.yml">>
subMain == Cwd \o <<SEP, "sub", SEP, "main.yml">>
subN == Cwd \o <<SEP, "sub", SEP, "n.yml">>
topMain == <<SEP, "main.yml">>
absF == Cwd \o <<SEP, "f.txt">>
subF == Cwd \o <<SEP, "sub", SEP, "f.txt">>
outTxt == <<"out.txt">>
\* what the output file holds when it exists before the run
oldOutput == <<"old", NL>>

DocPaths == {absMain, absN, subMain, subN, topMain}
DataPaths == {absF, subF}

cmd1 == <<"echo", SP, "1">>
cmd2 == <<"echo", SP, "2">>
Commands == {cmd1, cmd2}

opFile(path) == Operation(Some(path), None, None, None)
opPrompt(path) == Operation(None, Some(path), None, None)
opCommand(c) == Operation(None, None, Some(c), None)
opText(t) == Operation(None, None, None, Some(t))
opEmpty == Operation(None, None, None, None)
opMultiple == Operation(Some(relF), None, None, Some(<<"x">>))

helloWorld == <<"hello", SP, "world", NL>>
\* a literal with blank space and line terminators at both ends
paddedText == <<NL, SP, "hi", SP, SP, "there", SP, NL, NL>>

\* what os.ReadFile and yaml.Unmarshal give for a prompt document
DocAbsent == [exists |-> FALSE, yamlOK |-> FALSE, Prompt |-> None]
DocInvalid == [exists |-> TRUE, yamlOK |-> FALSE, Prompt |-> None]
DocNoKey == [exists |-> TRUE, yamlOK |-> TRUE, Prompt |-> None]
Doc(ops) == [exists |-> TRUE, yamlOK |-> TRUE, Prompt |-> Some(ops)]

\* the state of a data file: its text, its size in bytes and the offset of
\* its first zero byte (-1: none)
DataAbsent ==
    [exists |-> FALSE, readable |-> FALSE, content |-> <<>>, size |-> 0,
     firstZero |-> -1]
DataText ==
    [exists |-> TRUE, readable |-> TRUE, content |-> <<"data", NL>>, size |-> 5,
     firstZero |-> -1]
DataBinary ==
    [exists |-> TRUE, readable |-> TRUE, content |-> <<"bin">>, size |-> 4,
     firstZero |-> 3]
DataLateZero ==
    [exists |-> TRUE, readable |-> TRUE, content |-> <<"late", NL>>,
     size |-> BinaryProbe + 2, firstZero |-> BinaryProbe]
\* a file that os.Stat finds and os.Open refuses
DataUnreadable ==
    [exists |-> TRUE, readable |-> FALSE, content |-> <<>>, size |-> 4,
     firstZero |-> 1]
\* a text file with blank space and line terminators at both ends
DataPadded ==
    [exists |-> TRUE, readable |-> TRUE,
     content |-> <<NL, SP, "data", SP, SP, "more", SP, NL, NL>>, size |-> 17,
     firstZero |-> -1]
DataEmpty ==
    [exists |-> TRUE, readable |-> TRUE, content |-> <<>>, size |-> 0,
     firstZero |-> -1]
DataStates == {DataAbsent, DataText, DataBinary, DataLateZero}
AllDataStates == DataStates \cup {DataUnreadable, DataPadded, DataEmpty}

\* the outcome of running a shell command: exit code (-1: did not start)
\* and combined output
CmdOK == [started |-> TRUE, exit |-> 0, output |-> <<"out", NL>>]
CmdWarn == [started |-> TRUE, exit |-> 1, output |-> <<"warn", NL>>]
CmdFail == [started |-> TRUE, exit |-> 2, output |-> <<"fail", NL>>]
\* killed by a signal: ExitCode() is -1
CmdSignal == [started |-> TRUE, exit |-> -1, output |-> <<"part">>]
\* the shell could not be started: ProcessState is nil
CmdNoStart == [started |-> FALSE, exit |-> -1, output |-> <<>>]
\* exit 0 and nothing printed
CmdSilent == [started |-> TRUE, exit |-> 0, output |-> <<>>]
CmdOutcomes == {CmdOK, CmdWarn, CmdFail}
AllCmdOutcomes == CmdOutcomes \cup {CmdSignal, CmdNoStart, CmdSilent}

\* the documents of the model: the root document /a/main.yml holds up to
\* MaxOps operations; /a/n.yml, /a/sub/n.yml and /a/sub/main.yml are drawn
\* from the lists below
RootOps == {opCommand(cmd1), opFile(relF), opPrompt(relN), opPrompt(relSubN)}

RootDocs == {Doc(b) : b \in SeqsUpTo(RootOps, MaxOps)}
AbsNDocs ==
    {DocAbsent, DocInvalid, Doc(<<>>),
     Doc(<<opCommand(cmd2)>>),
     Doc(<<opFile(relF), opCommand(cmd2)>>),
     Doc(<<opPrompt(relMain)>>),
     Doc(<<opCommand(cmd2), opPrompt(relMain)>>),
     Doc(<<opPrompt(relMain), opCommand(cmd2)>>),
     Doc(<<opPrompt(relSubN)>>),
     Doc(<<opText(helloWorld), opPrompt(relSubN)>>)}
SubNDocs ==
    {DocAbsent, DocNoKey, Doc(<<opEmpty>>), Doc(<<opText(helloWorld), opMultiple>>),
     Doc(<<opFile(relF)>>),
     Doc(<<opCommand(cmd2)>>),
     Doc(<<opFile(relF), opCommand(cmd2)>>),
     Doc(<<opPrompt(relN)>>),
     Doc(<<opCommand(cmd2), opPrompt(relN)>>),
     Doc(<<opPrompt(relMain)>>),
     Doc(<<opPrompt(relMain), opText(helloWorld)>>)}
SubMainDocs == {DocAbsent, Doc(<<opText(helloWorld)>>)}
TopMainDocs == {DocAbsent, Doc(<<opText(helloWorld)>>)}

Budgets == {SmallBudget, DefaultMaxWords}
Styles == {"xml"}

VARIABLES
    args,       \* the arguments of processPromptFile
    docs,       \* prompt documents on disk, by absolute path
    files,      \* data files on disk, by absolute path; None until the
                \* engine first looks at the file, fixed from then on
    cmds,       \* outcome of each shell command; None until it first runs
    pc,         \* where processPromptFile is
    ctx,        \* the ProcessingContext of the current walk
    stack,      \* activations of validatePromptFileStructure or of the
                \* execution loops, outermost first
    err,        \* the error being returned, NoError if none
    stdout,     \* text written to the standard output stream
    stderr,     \* lines written to the diagnostic stream
    destFile,   \* content of the output file, None while it does not exist
    cmdLog,     \* shell commands run so far, in order
    readLog,    \* data files read so far, in order
    parseLog,   \* prompt documents parsed so far, in order
    previous    \* what the previous run of the program on these documents
                \* and files delivered, None in the first run

vars == <<args, docs, files, cmds, pc, ctx, stack, err, stdout, stderr,
          destFile, cmdLog, readLog, parseLog, previous>>

env == <<args, docs>>
outputs == <<stdout, stderr, destFile>>

\* ------------------------------------------------------------------------
\* parser.go
\* ------------------------------------------------------------------------
ReadDoc(filePath) ==
    IF Abs(filePath) \in DOMAIN docs THEN docs[Abs(filePath)] ELSE DocAbsent

\* index of the first operation GetType rejects, 0 if none
FirstBadOp(ops) ==
    LET bad == {i \in 1..Len(ops) : GetType(ops[i]).err # NoError}
    IN  IF bad = {} THEN 0 ELSE CHOOSE i \in bad : \A j \in bad : i <= j

validatePromptFile(pf) ==
    IF pf.Prompt = None THEN ErrMissingPromptKey
    ELSE IF FirstBadOp(pf.Prompt[1]) # 0
         THEN GetType(pf.Prompt[1][FirstBadOp(pf.Prompt[1])]).err
         ELSE NoError

parsePromptFile(filePath) ==
    LET d == ReadDoc(filePath)
    IN  IF ~d.exists THEN [ops |-> <<>>, err |-> ErrFileNotFound(filePath)]
        ELSE IF ~d.yamlOK THEN [ops |-> <<>>, err |-> ErrInvalidYAML(filePath)]
        ELSE IF validatePromptFile(d) # NoError
             THEN [ops |-> <<>>, err |-> validatePromptFile(d)]
        ELSE [ops |-> d.Prompt[1], err |-> NoError]

\* a zero byte anywhere in the file taken as the mark of a binary file
isBinaryFileWhole(f) == f.exists /\ f.readable /\ f.firstZero >= 0

isBinaryFile(f) ==
    LET n == IF f.size < BinaryProbe THEN f.size ELSE BinaryProbe
    IN  /\ f.exists
        /\ f.readable
        /\ f.size > 0
        /\ f.firstZero >= 0
        /\ f.firstZero < n

\* document d declares a prompt operation with the path ref
Mentions(d, ref) == d.Prompt # None /\ opPrompt(ref) \in {d.Prompt[1][i] : i \in 1..Len(d.Prompt[1])}

\* a document that no chain of references leads to from the root, read
\* against either directory, is left absent: no walk can read it
Pruned(r, n, sn, sm) ==
    LET useN == Mentions(r, relN) \/ (Mentions(r, relSubN) /\ Mentions(sn, relN))
        useSN == Mentions(r, relSubN) \/ (Mentions(r, relN) /\ Mentions(n, relSubN))
        useSM == useSN /\ Mentions(sn, relMain)
    IN  /\ useN \/ n = DocAbsent
        /\ useSN \/ sn = DocAbsent
        /\ useSM \/ sm = DocAbsent

\* the document above the working directory is read only through a
\* reference that climbs out of it
PrunedTop(sn, tm) == Mentions(sn, upMain) \/ tm = DocAbsent

InitWith(helps, promptFiles, outputFiles, budgets, styles, rootDocs, absNDocs, subNDocs, fileStates, cmdStates) ==
    /\ args \in [help : helps, promptFile : promptFiles, outputFile : outputFiles,
                 maxWords : budgets, delimiterStyle : styles]
    /\ \E r \in rootDocs, n \in absNDocs, sn \in subNDocs, sm \in SubMainDocs,
          tm \in TopMainDocs :
          /\ Pruned(r, n, sn, sm)
          /\ PrunedTop(sn, tm)
          /\ docs = (absMain :> r) @@ (absN :> n) @@ (subN :> sn) @@ (subMain :> sm)
                    @@ (topMain :> tm)
    /\ files \in [DataPaths -> fileStates]
    /\ cmds \in [Commands -> cmdStates]
    /\ pc = "main"
    /\ ctx = NewProcessingContext(args.promptFile, args.maxWords, args.delimiterStyle)
    /\ stack = <<>>
    /\ err = NoError
    /\ stdout = <<>>
    /\ stderr = <<>>
    /\ destFile \in (IF args.outputFile = <<>> THEN {None} ELSE {None, Some(oldOutput)})
    /\ cmdLog = <<>>
    /\ readLog = <<>>
    /\ parseLog = <<>>
    /\ previous = None

\* runs over document trees: both forms of the root path, documents in two
\* directories, the output printed
Init == InitWith({FALSE}, {relMain, absMain}, {<<>>}, Budgets, Styles,
                 RootDocs, AbsNDocs, SubNDocs, {None}, {None})

\* ------------------------------------------------------------------------
\* The walks.  A frame of the stack is one activation of
\* validatePromptFileStructure, of processPromptOperation or of the loop of
\* processPromptFile; i is the index of the operation its loop is at.
\* ------------------------------------------------------------------------
Top == stack[Len(stack)]
Pop == Front(stack)
AtOperation == stack # <<>> /\ Top.i <= Len(Top.ops)
LoopDone == stack # <<>> /\ Top.i > Len(Top.ops)
CurrentOp == Top.ops[Top.i]

\* the position of the current operation in the tree of activations
Position == [k \in 1..Len(stack) |-> stack[k].i]

\* a loop that stays at its operation
AdvanceStay(st) == st

\* the top frame moved to its next operation
Advance(st) == [st EXCEPT ![Len(st)].i = @ + 1]

\* the loop stepping over the operation after the current one
CollectSkip(st, section) ==
    [st EXCEPT ![Len(st)].i = @ + 2,
               ![Len(st)].sections = Append(@, section)]

\* the top frame given one more section and moved to its next operation
Collect(st, section) ==
    [st EXCEPT ![Len(st)].i = @ + 1,
               ![Len(st)].sections = Append(@, section)]

ValidateFrame(filePath, absPath, ops) ==
    [fn |-> "validatePromptFileStructure", filePath |-> filePath,
     absPath |-> absPath, ops |-> ops, i |-> 1]

\* validatePromptFileStructure up to its loop: the outcome of entering the
\* document at filePath with context c
ValidateEnter(filePath, c) ==
    LET absPath == Abs(filePath)
        marked == MarkVisited(c, absPath)
        parsed == parsePromptFile(filePath)
    IN  IF IsVisited(c, absPath)
        THEN [err |-> ErrCircularReference(filePath, getVisitedPaths(c)),
              ctx |-> c, frame |-> None, parsed |-> FALSE]
        ELSE IF parsed.err # NoError
        THEN [err |-> parsed.err, ctx |-> DeleteVisited(marked, absPath),
              frame |-> None, parsed |-> TRUE]
        ELSE [err |-> NoError,
              ctx |-> marked,
              frame |-> Some(ValidateFrame(filePath, absPath, parsed.ops)),
              parsed |-> TRUE]

LogParse(phase, filePath, did) ==
    IF did THEN Append(parseLog, [phase |-> phase, path |-> Abs(filePath),
                                  position |-> Position])
    ELSE parseLog

\* the lines main writes to the diagnostic stream
Line(kind, text, e) == [kind |-> kind, text |-> text, err |-> e]
Usage == Line("Usage", <<>>, NoError)
FlagRequired == Line("Error", <<"-f flag is required">>, NoError)
InvalidStyle(style) == Line("Error", <<"invalid delimiter style", style>>, NoError)
ErrorLine(e) == Line("Error", <<>>, e)

ValidStyles == {"xml", "minimal", "none", "full"}

\* the delimiter style passed to processPromptFile as it is given
mainAnyStyle ==
    /\ pc = "main"
    /\ IF args.help
       THEN /\ stderr' = Append(stderr, Usage)
            /\ pc' = "exit0"
       ELSE IF args.promptFile = <<>>
       THEN /\ stderr' = stderr \o <<FlagRequired, Usage>>
            /\ pc' = "exit1"
       ELSE /\ stderr' = stderr
            /\ pc' = "start"
    /\ UNCHANGED <<args, docs, previous, files, cmds, ctx, stack, err, stdout, destFile,
                   cmdLog, readLog, parseLog>>

\* main from flag.Parse to the call of processPromptFile
main ==
    /\ pc = "main"
    /\ IF args.help
       THEN /\ stderr' = Append(stderr, Usage)
            /\ pc' = "exit0"
       ELSE IF args.promptFile = <<>>
       THEN /\ stderr' = stderr \o <<FlagRequired, Usage>>
            /\ pc' = "exit1"
       ELSE IF args.delimiterStyle \notin ValidStyles
       THEN /\ stderr' = stderr \o <<InvalidStyle(args.delimiterStyle), Usage>>
            /\ pc' = "exit1"
       ELSE /\ stderr' = stderr
            /\ pc' = "start"
    /\ UNCHANGED <<args, docs, previous, files, cmds, ctx, stack, err, stdout, destFile,
                   cmdLog, readLog, parseLog>>

\* processPromptFile calls validatePromptFileStructure on the root document
validateStart ==
    /\ pc = "start"
    /\ LET r == ValidateEnter(args.promptFile, ctx)
       IN  /\ ctx' = r.ctx
           /\ err' = r.err
           /\ parseLog' = LogParse("validate", args.promptFile, r.parsed)
           /\ IF r.err # NoError
              THEN /\ pc' = "done"
                   /\ stack' = stack
              ELSE /\ pc' = "validate"
                   /\ stack' = Append(stack, r.frame[1])
    /\ UNCHANGED <<args, docs, previous, files, cmds, outputs, cmdLog, readLog>>

\* validation that does not descend into nested documents
validateOperationShallow ==
    /\ pc = "validate"
    /\ AtOperation
    /\ stack' = Advance(stack)
    /\ UNCHANGED <<args, docs, previous, files, cmds, ctx, err, pc, outputs, cmdLog,
                   readLog, parseLog>>

\* validation that also looks at the targets of file operations and runs
\* the commands
validateOperationEager ==
    /\ pc = "validate"
    /\ AtOperation
    /\ GetType(CurrentOp).type # PromptOp
    /\ IF GetType(CurrentOp).type = FileOp
       THEN /\ readLog' = Append(readLog, [path |-> ResolvePath(ctx, GetValue(CurrentOp)),
                                           position |-> Position])
            /\ cmdLog' = cmdLog
       ELSE IF GetType(CurrentOp).type = CommandOp
       THEN /\ cmdLog' = Append(cmdLog, [command |-> GetValue(CurrentOp),
                                         position |-> Position])
            /\ readLog' = readLog
       ELSE UNCHANGED <<cmdLog, readLog>>
    /\ stack' = Advance(stack)
    /\ UNCHANGED <<args, docs, previous, files, cmds, ctx, err, pc, outputs, parseLog>>

\* the loop of validatePromptFileStructure at one operation: a prompt
\* operation is entered, any other is passed over
validateOperation ==
    /\ pc = "validate"
    /\ AtOperation
    /\ IF GetType(CurrentOp).type = PromptOp
       THEN \E nestedPath \in {ResolvePath(ctx, GetValue(CurrentOp))} :
            \E r \in {ValidateEnter(nestedPath, ctx)} :
                /\ ctx' = r.ctx
                /\ err' = r.err
                /\ parseLog' = LogParse("validate", nestedPath, r.parsed)
                /\ IF r.err # NoError
                   THEN /\ pc' = "validateFailed"
                        /\ stack' = stack
                   ELSE /\ pc' = pc
                        /\ stack' = Append(stack, r.frame[1])
       ELSE /\ stack' = Advance(stack)
            /\ UNCHANGED <<ctx, err, pc, parseLog>>
    /\ UNCHANGED <<args, docs, previous, files, cmds, outputs, cmdLog, readLog>>

\* validatePromptFileStructure returns nil: the deferred delete runs and
\* the caller's loop goes on
validateReturn ==
    /\ pc = "validate"
    /\ LoopDone
    /\ ctx' = DeleteVisited(ctx, Top.absPath)
    /\ stack' = IF Len(stack) > 1 THEN Advance(Pop) ELSE Pop
    /\ UNCHANGED <<args, docs, previous, files, cmds, pc, err, outputs, cmdLog, readLog,
                   parseLog>>

\* an activation of validatePromptFileStructure returns the error of its
\* callee (its deferred delete runs); the outermost one makes
\* processPromptFile return it
validateReturnError ==
    /\ pc = "validateFailed"
    /\ stack # <<>>
    /\ ctx' = DeleteVisited(ctx, Top.absPath)
    /\ stack' = Pop
    /\ pc' = IF Len(stack) = 1 THEN "done" ELSE pc
    /\ UNCHANGED <<args, docs, previous, files, cmds, err, outputs, cmdLog, readLog,
                   parseLog>>

RootFrame(ops) == [fn |-> "processPromptFile", ops |-> ops, i |-> 1, sections |-> <<>>]

PromptFrame(promptPath, resolvedPath, oldBasePath, ops) ==
    [fn |-> "processPromptOperation", promptPath |-> promptPath,
     resolvedPath |-> resolvedPath, oldBasePath |-> oldBasePath,
     ops |-> ops, i |-> 1, sections |-> <<>>]

\* processPromptFile after validation: a new context, the root document
\* parsed again, the loop over its operations entered
executeStart ==
    /\ pc = "validate"
    /\ stack = <<>>
    /\ LET parsed == parsePromptFile(args.promptFile)
       IN  /\ ctx' = NewProcessingContext(args.promptFile, args.maxWords,
                                          args.delimiterStyle)
           /\ parseLog' = LogParse("execute", args.promptFile, TRUE)
           /\ err' = parsed.err
           /\ IF parsed.err # NoError
              THEN /\ pc' = "done"
                   /\ stack' = stack
              ELSE /\ pc' = "execute"
                   /\ stack' = <<RootFrame(parsed.ops)>>
    /\ UNCHANGED <<args, docs, previous, files, cmds, outputs, cmdLog, readLog>>

Executing(type) ==
    /\ pc = "execute"
    /\ AtOperation
    /\ GetType(CurrentOp).err = NoError
    /\ GetType(CurrentOp).type = type

\* the content stripped of its trailing line terminators before it is kept
ProduceTrimmed(c, source, content, type) ==
    LET added == AddWords(c, countWords(content))
    IN  /\ ctx' = added.ctx
        /\ err' = added.err
        /\ IF added.err # NoError
           THEN /\ pc' = "executeFailed"
                /\ stack' = stack
           ELSE /\ pc' = pc
                /\ stack' = Collect(stack, ContentSection(source, TrimRightNL(content),
                                                          type))

\* the outcome of an operation that produced content: the words are
\* added, then the section is handed to the loop of the caller
Produce(c, source, content, type) ==
    LET added == AddWords(c, countWords(content))
    IN  /\ ctx' = added.ctx
        /\ err' = added.err
        /\ IF added.err # NoError
           THEN /\ pc' = "executeFailed"
                /\ stack' = stack
           ELSE /\ pc' = pc
                /\ stack' = Collect(stack, ContentSection(source, content, type))

\* an operation whose error is recorded while its loop goes on
FailAndContinue(e) ==
    /\ err' = e
    /\ pc' = pc
    /\ stack' = Advance(stack)
    /\ ctx' = ctx

\* an operation returns the error e to the loop that called it
Fail(e) ==
    /\ err' = e
    /\ pc' = "executeFailed"
    /\ UNCHANGED <<ctx, stack>>

DataFile(path) == IF Abs(path) \in DOMAIN files THEN files[Abs(path)] ELSE Some(DataAbsent)

\* the section of a file operation labelled with the resolved path
processFileOperationResolved ==
    /\ Executing(FileOp)
    /\ LET filePath == GetValue(CurrentOp)
           resolvedPath == ResolvePath(ctx, filePath)
       IN  \E f \in (IF DataFile(resolvedPath) = None THEN DataStates
                     ELSE {DataFile(resolvedPath)[1]}) :
              /\ files' = IF Abs(resolvedPath) \in DOMAIN files
                          THEN [files EXCEPT ![Abs(resolvedPath)] = Some(f)]
                          ELSE files
              /\ IF ~f.exists
                 THEN /\ Fail(ErrFileNotFound(resolvedPath))
                      /\ readLog' = readLog
                 ELSE /\ readLog' = Append(readLog,
                                [path |-> resolvedPath, position |-> Position])
                      /\ IF isBinaryFile(f)
                         THEN Fail(ErrBinaryFile(resolvedPath))
                         ELSE IF ~f.readable
                         THEN Fail(ErrReadFailed(resolvedPath))
                         ELSE Produce(ctx, resolvedPath, f.content, FileOp)
    /\ UNCHANGED <<args, docs, previous, cmds, outputs, cmdLog, parseLog>>

processFileOperation ==
    /\ Executing(FileOp)
    /\ LET filePath == GetValue(CurrentOp)
           resolvedPath == ResolvePath(ctx, filePath)
       IN  \E f \in (IF DataFile(resolvedPath) = None THEN DataStates
                     ELSE {DataFile(resolvedPath)[1]}) :
              /\ files' = IF Abs(resolvedPath) \in DOMAIN files
                          THEN [files EXCEPT ![Abs(resolvedPath)] = Some(f)]
                          ELSE files
              /\ IF ~f.exists
                 THEN /\ Fail(ErrFileNotFound(resolvedPath))
                      /\ readLog' = readLog
                 ELSE /\ readLog' = Append(readLog,
                                [path |-> resolvedPath, position |-> Position])
                      /\ IF isBinaryFile(f)
                         THEN Fail(ErrBinaryFile(resolvedPath))
                         ELSE IF ~f.readable
                         THEN Fail(ErrReadFailed(resolvedPath))
                         ELSE Produce(ctx, filePath, f.content, FileOp)
    /\ UNCHANGED <<args, docs, previous, cmds, outputs, cmdLog, parseLog>>

Warning(command) == Line("Warning", command, NoError)

\* exit status 1 taken as a failure like any other
ExitPolicyStrict(o) ==
    IF o.started /\ o.exit = 0 THEN "ok" ELSE "fail"

\* what processCommandOperation makes of the outcome of cmd.CombinedOutput
ExitPolicy(o) ==
    IF o.started /\ o.exit = 0 THEN "ok"
    ELSE IF o.started /\ o.exit = 1 THEN "warn"
    ELSE "fail"

processCommandOperation ==
    /\ Executing(CommandOp)
    /\ LET command == GetValue(CurrentOp)
       IN  \E o \in (IF cmds[command] = None THEN CmdOutcomes
                     ELSE {cmds[command][1]}) :
              /\ cmds' = [cmds EXCEPT ![command] = Some(o)]
              /\ cmdLog' = Append(cmdLog, [command |-> command, position |-> Position])
              /\ IF ExitPolicy(o) = "ok"
                 THEN /\ Produce(ctx, command, o.output, CommandOp)
                      /\ stderr' = stderr
                 ELSE IF ExitPolicy(o) = "warn"
                 THEN /\ Produce(ctx, command, o.output, CommandOp)
                      /\ stderr' = Append(stderr, Warning(command))
                 ELSE /\ Fail(ErrCommandFailed(command))
                      /\ stderr' = stderr
    /\ UNCHANGED <<args, docs, previous, files, stdout, destFile, readLog, parseLog>>

\* a text operation that may yield its section or none
processTextOperationFlaky ==
    /\ Executing(TextOp)
    /\ \/ Produce(ctx, <<"text">>, GetValue(CurrentOp), TextOp)
       \/ /\ stack' = Advance(stack)
          /\ UNCHANGED <<ctx, err, pc>>
    /\ UNCHANGED <<args, docs, previous, files, cmds, outputs, cmdLog, readLog, parseLog>>

processTextOperation ==
    /\ Executing(TextOp)
    /\ Produce(ctx, <<"text">>, GetValue(CurrentOp), TextOp)
    /\ UNCHANGED <<args, docs, previous, files, cmds, outputs, cmdLog, readLog, parseLog>>

\* processPromptOperation before its loop: the base directory becomes the
\* directory of the nested document, which joins the visited set
EnterDocument(c, resolvedPath) ==
    MarkVisited([c EXCEPT !.basePath = Dir(resolvedPath)], resolvedPath)

\* the base directory left as the nested document set it
LeaveDocumentKeepBase(c, frame) == DeleteVisited(c, frame.resolvedPath)

\* processPromptOperation after its loop: the document leaves the visited
\* set and the saved base directory is restored
LeaveDocument(c, frame) ==
    [DeleteVisited(c, frame.resolvedPath) EXCEPT !.basePath = frame.oldBasePath]

\* processPromptOperation up to its loop
processPromptOperation ==
    /\ Executing(PromptOp)
    /\ \E promptPath \in {GetValue(CurrentOp)} :
       \E resolvedPath \in {ResolvePath(ctx, promptPath)} :
       \E parsed \in {parsePromptFile(resolvedPath)} :
           IF IsVisited(ctx, resolvedPath)
           THEN /\ Fail(ErrCircularReference(resolvedPath, getVisitedPaths(ctx)))
                /\ parseLog' = parseLog
           ELSE /\ parseLog' = LogParse("execute", resolvedPath, TRUE)
                /\ IF parsed.err # NoError
                   THEN Fail(parsed.err)
                   ELSE /\ ctx' = EnterDocument(ctx, resolvedPath)
                        /\ stack' = Append(stack, PromptFrame(promptPath, resolvedPath,
                                                              ctx.basePath, parsed.ops))
                        /\ UNCHANGED <<err, pc>>
    /\ UNCHANGED <<args, docs, previous, files, cmds, outputs, cmdLog, readLog>>

\* processPromptOperation after its loop: the child sections are combined
\* into one section, whose words are added to the total
processPromptReturn ==
    /\ pc = "execute"
    /\ LoopDone
    /\ Top.fn = "processPromptOperation"
    /\ LET restored == LeaveDocument(ctx, Top)
           content == CombinedContent(Top.promptPath, Top.sections,
                                      ctx.delimiterStyle)
           added == AddWords(restored, countWords(content))
       IN  /\ ctx' = added.ctx
           /\ err' = added.err
           /\ IF added.err # NoError
              THEN /\ pc' = "executeFailed"
                   /\ stack' = Pop
              ELSE /\ pc' = pc
                   /\ stack' = Collect(Pop, ContentSection(Top.promptPath, content,
                                                           PromptOp))
    /\ UNCHANGED <<args, docs, previous, files, cmds, outputs, cmdLog, readLog, parseLog>>

\* the outermost loop rendering the sections it has collected before it
\* returns the error
executeReturnErrorFlush ==
    /\ pc = "executeFailed"
    /\ stack # <<>>
    /\ stack' = Pop
    /\ pc' = IF Len(stack) = 1 THEN "done" ELSE pc
    /\ IF Len(stack) = 1
       THEN IF args.outputFile = <<>>
            THEN /\ stdout' = stdout \o compileOutput(Top.sections, args.delimiterStyle)
                 /\ destFile' = destFile
            ELSE /\ destFile' = Some(compileOutput(Top.sections, args.delimiterStyle))
                 /\ stdout' = stdout
       ELSE UNCHANGED <<stdout, destFile>>
    /\ UNCHANGED <<args, docs, previous, files, cmds, ctx, err, stderr, cmdLog, readLog,
                   parseLog>>

\* a loop of the execution walk returns the error of the operation it
\* called; the loop of processPromptFile returns it to the caller
executeReturnError ==
    /\ pc = "executeFailed"
    /\ stack # <<>>
    /\ stack' = Pop
    /\ pc' = IF Len(stack) = 1 THEN "done" ELSE pc
    /\ UNCHANGED <<args, docs, previous, files, cmds, ctx, err, outputs, cmdLog, readLog,
                   parseLog>>

\* processPromptFile after its loop: compileOutput, then the output is
\* printed or written to the output file (os.WriteFile may fail, leaving
\* the file absent or truncated)
writeOutput ==
    /\ pc = "execute"
    /\ LoopDone
    /\ Top.fn = "processPromptFile"
    /\ LET output == compileOutput(Top.sections, args.delimiterStyle)
       IN  IF args.outputFile = <<>>
           THEN /\ stdout' = stdout \o output
                /\ UNCHANGED <<destFile, err>>
           ELSE \/ /\ destFile' = Some(output)
                   /\ UNCHANGED <<stdout, err>>
                \/ /\ destFile' \in {destFile, Some(<<>>)}
                   /\ err' = ErrWriteFailed(args.outputFile)
                   /\ stdout' = stdout
    /\ pc' = "done"
    /\ UNCHANGED <<args, docs, previous, files, cmds, ctx, stack, stderr, cmdLog, readLog,
                   parseLog>>

\* an error reported on the diagnostic stream and the exit status left at 0
mainExitZero ==
    /\ pc = "done"
    /\ pc' = "exit0"
    /\ stderr' = IF err = NoError THEN stderr ELSE Append(stderr, ErrorLine(err))
    /\ UNCHANGED <<args, docs, previous, files, cmds, ctx, stack, err, stdout, destFile,
                   cmdLog, readLog, parseLog>>

\* main after processPromptFile has returned: an error is reported on the
\* diagnostic stream and the process exits with 1, otherwise with 0
mainExit ==
    /\ pc = "done"
    /\ IF err = NoError
       THEN /\ pc' = "exit0"
            /\ stderr' = stderr
       ELSE /\ pc' = "exit1"
            /\ stderr' = Append(stderr, ErrorLine(err))
    /\ UNCHANGED <<args, docs, previous, files, cmds, ctx, stack, err, stdout, destFile,
                   cmdLog, readLog, parseLog>>

Next ==
    \/ main
    \/ validateStart
    \/ validateOperation
    \/ validateReturn
    \/ validateReturnError
    \/ executeStart
    \/ processFileOperation
    \/ processCommandOperation
    \/ processTextOperation
    \/ processPromptOperation
    \/ processPromptReturn
    \/ executeReturnError
    \/ writeOutput
    \/ mainExit

Spec == Init /\ [][Next]_vars

\* ------------------------------------------------------------------------
\* Runs over word budgets: documents of one directory, every file present
\* and every command outcome fixed, budgets from 0 to MaxBudget
\* ------------------------------------------------------------------------
MaxBudget == 6

FlatRootOps == {opCommand(cmd1), opFile(relF), opPrompt(relN), opText(helloWorld)}
FlatRootDocs == {Doc(b) : b \in SeqsUpTo(FlatRootOps, MaxOps)}
FlatNDocs ==
    {DocAbsent, Doc(<<>>),
     Doc(<<opText(helloWorld)>>),
     Doc(<<opCommand(cmd2)>>),
     Doc(<<opFile(relF), opCommand(cmd2)>>),
     Doc(<<opPrompt(relMain)>>)}

InitBudget == InitWith({FALSE}, {absMain}, {<<>>}, 0..MaxBudget, Styles,
                       FlatRootDocs, FlatNDocs, {DocAbsent},
                       {Some(DataText)}, {Some(CmdOK), Some(CmdFail)})

SpecBudget == InitBudget /\ [][Next]_vars

\* ------------------------------------------------------------------------
\* Runs over output destinations: the output printed or written to a file
\* that exists or not, documents of one directory
\* ------------------------------------------------------------------------
InitOutput == InitWith({FALSE}, {absMain}, {<<>>, outTxt}, Budgets, Styles,
                       FlatRootDocs, FlatNDocs, {DocAbsent}, {None}, {None})

SpecOutput == InitOutput /\ [][Next]_vars

\* ------------------------------------------------------------------------
\* Runs over command outcomes: every way a command can end, documents of
\* one directory
\* ------------------------------------------------------------------------
InitCommand == InitWith({FALSE}, {absMain}, {<<>>}, Budgets, Styles,
                        FlatRootDocs, FlatNDocs, {DocAbsent},
                        {None}, {Some(o) : o \in AllCmdOutcomes})

SpecCommand == InitCommand /\ [][Next]_vars

\* ------------------------------------------------------------------------
\* Runs over document schemas: entries with every combination of populated
\* fields (a field may hold the empty string), at the root and nested
\* ------------------------------------------------------------------------
AllOperations ==
    {Operation(f, p, c, t) :
        f \in {None, Some(relF)}, p \in {None, Some(relN)},
        c \in {None, Some(cmd1)}, t \in {None, Some(<<>>), Some(helloWorld)}}

SchemaDocs ==
    {DocInvalid, DocNoKey}
    \cup {Doc(<<op>>) : op \in AllOperations}
    \cup {Doc(<<opText(helloWorld), op>>) : op \in AllOperations}

InitSchema == InitWith({FALSE}, {absMain}, {<<>>}, Budgets, Styles,
                       FlatRootDocs \cup SchemaDocs, FlatNDocs \cup SchemaDocs,
                       {DocAbsent}, {None}, {None})

SpecSchema == InitSchema /\ [][Next]_vars

\* ------------------------------------------------------------------------
\* Runs over data files: every state a data file can be in, documents of
\* one directory
\* ------------------------------------------------------------------------
PaddedDocs ==
    {Doc(<<opText(paddedText)>>),
     Doc(<<opText(paddedText), opFile(relF)>>),
     Doc(<<opFile(relF), opText(paddedText)>>)}

InitFile == InitWith({FALSE}, {absMain}, {<<>>}, Budgets, Styles,
                     FlatRootDocs \cup PaddedDocs, FlatNDocs \cup PaddedDocs,
                     {DocAbsent}, {Some(f) : f \in AllDataStates}, {Some(CmdOK)})

SpecFile == InitFile /\ [][Next]_vars

\* ------------------------------------------------------------------------
\* Runs over the order of execution: the document trees of Init under the
\* absolute root path and the default budget, so that the walks go as deep
\* and as far as the documents allow
\* ------------------------------------------------------------------------
InitOrder == InitWith({FALSE}, {absMain}, {<<>>}, {DefaultMaxWords}, Styles,
                      RootDocs, AbsNDocs, SubNDocs, {None}, {None})

SpecOrder == InitOrder /\ [][Next]_vars

\* ------------------------------------------------------------------------
\* Runs of the program twice over: the same arguments, documents and data
\* files; what a shell command does the second time is open again
\* ------------------------------------------------------------------------
\* the process has exited, and with what status
Exited == pc \in {"exit0", "exit1"}
ExitCode == IF pc = "exit0" THEN 0 ELSE 1

\* what a run that has exited leaves behind
Outcome ==
    [code |-> ExitCode, err |-> err, stdout |-> stdout, stderr |-> stderr]

\* the program started a second time after the first run has exited
rerun ==
    /\ Exited
    /\ previous = None
    /\ previous' = Some(Outcome)
    /\ pc' = "main"
    /\ ctx' = NewProcessingContext(args.promptFile, args.maxWords, args.delimiterStyle)
    /\ stack' = <<>>
    /\ err' = NoError
    /\ stdout' = <<>>
    /\ stderr' = <<>>
    /\ cmdLog' = <<>>
    /\ readLog' = <<>>
    /\ parseLog' = <<>>
    /\ cmds' = [c \in DOMAIN cmds |-> None]
    /\ UNCHANGED <<args, docs, files, destFile>>

NextTwice == Next \/ rerun

TwiceRootOps == {opCommand(cmd1), opFile(relF), opPrompt(relN), opText(helloWorld)}
TwiceRootDocs == {Doc(b) : b \in SeqsUpTo(TwiceRootOps, MaxOps)}
TwiceNDocs ==
    {DocAbsent, DocInvalid,
     Doc(<<opText(paddedText)>>),
     Doc(<<opFile(relF), opCommand(cmd2)>>),
     Doc(<<opPrompt(relMain)>>)}

InitTwice == InitWith({FALSE}, {absMain}, {<<>>}, Budgets, {"xml", "none"},
                      TwiceRootDocs, TwiceNDocs, {DocAbsent},
                      {Some(DataText), Some(DataAbsent)}, {None})

SpecTwice == InitTwice /\ [][NextTwice]_vars

\* runs over trees in which a nested document refers to the document above
\* its own directory: the reference names the root document when it is
\* read against the directory of the nested document, and a document
\* outside the working directory when it is read against that of the root
ReentryRootOps == {opCommand(cmd1), opFile(relF), opText(helloWorld), opPrompt(relN), opPrompt(relSubN)}
ReentryRootDocs == {Doc(b) : b \in SeqsUpTo(ReentryRootOps, MaxOps)}
ReentryNDocs == {DocAbsent, DocInvalid, Doc(<<opText(paddedText)>>)}
ReentrySubNDocs == {DocAbsent, Doc(<<opPrompt(upMain)>>), Doc(<<opText(helloWorld), opPrompt(upMain)>>)}
InitReentry == InitWith({FALSE}, {absMain}, {<<>>}, Budgets, {"xml"}, ReentryRootDocs, ReentryNDocs, ReentrySubNDocs, {Some(DataText)}, {Some(CmdOK)})
SpecReentry == InitReentry /\ [][Next]_vars

\* runs over trees with cycles: a document that names itself, two
\* documents that name each other, cycles through another directory and
\* through the root document; the program is never held up between two
\* steps (it is one sequential process and every command returns)
CycleRootDocs == {Doc(<<opPrompt(relMain)>>), Doc(<<opPrompt(relN)>>), Doc(<<opCommand(cmd1), opPrompt(relSubN)>>), Doc(<<opText(helloWorld), opFile(relF)>>), Doc(<<opFile(relF), opPrompt(relN)>>)}
CycleNDocs == {DocAbsent, Doc(<<opText(helloWorld)>>), Doc(<<opPrompt(relN)>>), Doc(<<opPrompt(relMain)>>), Doc(<<opCommand(cmd2), opPrompt(relSubN)>>)}
CycleSubNDocs == {DocAbsent, Doc(<<opPrompt(upMain)>>), Doc(<<opPrompt(relN)>>), Doc(<<opText(helloWorld), opPrompt(relMain)>>)}
InitCycles == InitWith({FALSE}, {absMain}, {<<>>}, Budgets, {"xml"}, CycleRootDocs, CycleNDocs, CycleSubNDocs, {Some(DataText)}, {Some(CmdOK)})
SpecCycles == InitCycles /\ [][Next]_vars /\ WF_vars(Next)

\* ------------------------------------------------------------------------
\* Runs over invocations: with and without the help flag, the -f value and
\* a valid delimiter style, the output printed or written, commands with
\* the exit status 0, 1 and 2
\* ------------------------------------------------------------------------
InitMain == InitWith({FALSE, TRUE}, {<<>>, absMain}, {<<>>, outTxt}, Budgets,
                     {"xml", "bogus"}, FlatRootDocs, FlatNDocs, {DocAbsent},
                     {None}, {Some(o) : o \in CmdOutcomes})

SpecMain == InitMain /\ [][Next]_vars

\* ------------------------------------------------------------------------
\* Runs over renderings: the four delimiter styles, contents that are
\* empty or begin and end with line terminators, documents nested to depth
\* two, the default budget and a small one
\* ------------------------------------------------------------------------
RenderRootOps ==
    {opCommand(cmd1), opFile(relF), opPrompt(relN), opText(paddedText)}
RenderRootDocs == {Doc(b) : b \in SeqsUpTo(RenderRootOps, MaxOps)}
RenderNDocs ==
    {Doc(<<>>),
     Doc(<<opText(helloWorld)>>),
     Doc(<<opFile(relF), opText(paddedText)>>),
     Doc(<<opPrompt(relMain)>>),
     Doc(<<opText(helloWorld), opPrompt(relSubN)>>)}
RenderSubNDocs == {DocAbsent, Doc(<<opCommand(cmd2)>>)}

InitRender == InitWith({FALSE}, {absMain}, {<<>>}, {SmallBudget, DefaultMaxWords}, ValidStyles,
                       RenderRootDocs, RenderNDocs \cup {DocAbsent}, RenderSubNDocs,
                       {Some(DataText), Some(DataPadded)},
                       {Some(CmdOK), Some(CmdSilent)})

SpecRender == InitRender /\ [][Next]_vars

\* ------------------------------------------------------------------------
\* The document graph as the documents declare it: every reference names a
\* file relative to the directory of the document that contains it
\* ------------------------------------------------------------------------
MaxDepth == 6

Range(f) == {f[i] : i \in DOMAIN f}

rootDoc == Abs(args.promptFile)

WellFormed(doc) == parsePromptFile(doc).err = NoError
Declared(doc) == parsePromptFile(doc).ops
IsKind(op, type) == GetType(op).err = NoError /\ GetType(op).type = type

Target(doc, ref) == IF IsAbs(ref) THEN Clean(ref) ELSE Join(Dir(doc), ref)

References(doc) ==
    {Target(doc, GetValue(op)) : op \in {o \in Range(Declared(doc)) : IsKind(o, PromptOp)}}

\* five documents exist, so four rounds reach every one of them from any other
Grow(S) == S \cup UNION {References(d) : d \in S}
Reachable(S) == Grow(Grow(Grow(Grow(S))))

Tree == Reachable({rootDoc})
OnCycle(doc) == doc \in Reachable(References(doc))
MalformedTree == \E d \in Tree : ~WellFormed(d) \/ OnCycle(d)

\* the document the operations at the given position belong to: position
\* <<i, j>> is operation j of the document named by operation i of the root
\* (<<>> when the position names no prompt reference)
RECURSIVE DocAt(_)
DocAt(position) ==
    IF position = <<>> THEN rootDoc
    ELSE LET parent == DocAt(Front(position))
             i == Last(position)
         IN  IF parent # <<>> /\ i \in 1..Len(Declared(parent))
                /\ IsKind(Declared(parent)[i], PromptOp)
             THEN Target(parent, GetValue(Declared(parent)[i]))
             ELSE <<>>

\* the operation at a position, opEmpty when there is none
OpAt(position) ==
    LET doc == DocAt(Front(position))
    IN  IF doc # <<>> /\ Last(position) \in 1..Len(Declared(doc))
        THEN Declared(doc)[Last(position)]
        ELSE opEmpty

\* p comes before q in depth-first declaration order
Precedes(p, q) ==
    \E k \in 1..Len(p) :
        /\ k <= Len(q)
        /\ p[k] < q[k]
        /\ \A j \in 1..(k - 1) : p[j] = q[j]

IsPrefix(s, t) == Len(s) <= Len(t) /\ s = SubSeq(t, 1, Len(s))

\* the command operations of the tree under doc in depth-first declaration
\* order, each with its position
RECURSIVE ExpectedCommands(_, _, _)
ExpectedCommands(doc, prefix, depth) ==
    LET ops == Declared(doc)
        at(i) ==
            IF IsKind(ops[i], CommandOp)
            THEN <<[command |-> GetValue(ops[i]), position |-> Append(prefix, i)]>>
            ELSE IF IsKind(ops[i], PromptOp) /\ depth > 0
            THEN ExpectedCommands(Target(doc, GetValue(ops[i])), Append(prefix, i),
                                  depth - 1)
            ELSE <<>>
    IN  Flatten([i \in 1..Len(ops) |-> at(i)])

\* what is known of a data file or a command, taken as absent or failed
\* while the engine has not looked at it
KnownFile(p) == IF p \in DOMAIN files /\ files[p] # None THEN files[p][1] ELSE DataAbsent
KnownCmd(c) == IF c \in DOMAIN cmds /\ cmds[c] # None THEN cmds[c][1] ELSE CmdFail

\* the section operation op of document doc stands for: its content read
\* against the directory of doc, a nested document expanded in place
RECURSIVE ExpectedSection(_, _, _)
ExpectedSection(doc, op, depth) ==
    LET value == GetValue(op)
    IN  CASE IsKind(op, FileOp) ->
                ContentSection(value, KnownFile(Target(doc, value)).content, FileOp)
          [] IsKind(op, CommandOp) ->
                ContentSection(value, KnownCmd(value).output, CommandOp)
          [] IsKind(op, TextOp) ->
                ContentSection(<<"text">>, value, TextOp)
          [] OTHER ->
                LET child == Target(doc, value)
                    ops == IF depth = 0 THEN <<>> ELSE Declared(child)
                IN  ContentSection(value,
                        CombinedContent(value,
                            [i \in 1..Len(ops) |->
                                ExpectedSection(child, ops[i], depth - 1)],
                            args.delimiterStyle),
                        PromptOp)

ExpectedSections ==
    [i \in 1..Len(Declared(rootDoc)) |->
        ExpectedSection(rootDoc, Declared(rootDoc)[i], MaxDepth)]

RECURSIVE SumWords(_)
SumWords(sections) ==
    IF sections = <<>> THEN 0
    ELSE countWords(Head(sections).Content) + SumWords(Tail(sections))

\* the number of words of the resolved content of the root document
ResolvedWords == SumWords(ExpectedSections)

\* every document of the tree parses and lies on no cycle, every file the
\* engine looked at is a text file, every command it ran exited with 0
Favourable ==
    /\ \A d \in Tree : WellFormed(d) /\ ~OnCycle(d)
    /\ \A p \in DataPaths :
            files[p] # None => files[p][1].exists /\ ~isBinaryFile(files[p][1])
    /\ \A c \in Commands : cmds[c] # None => ExitPolicy(cmds[c][1]) = "ok"


ExecutionStarted == \E k \in 1..Len(parseLog) : parseLog[k].phase = "execute"
Done == pc = "done"
Succeeded == pc = "done" /\ err = NoError

\* ------------------------------------------------------------------------
\* Properties
\* ------------------------------------------------------------------------
\* the root document /a/main.yml and /a/n.yml reference each other
MutualReference ==
    /\ rootDoc = absMain
    /\ absN \in References(absMain)
    /\ absMain \in References(absN)

C2_MalformedTreeNeverExecuted ==
    (ExecutionStarted \/ cmdLog # <<>> \/ readLog # <<>>) => ~MalformedTree

\* a document is named by two prompt operations of the tree
RepeatedInclusion ==
    \E d \in Tree :
        \/ \E p, q \in Tree : p # q /\ d \in References(p) /\ d \in References(q)
        \/ \E p \in Tree : \E i, j \in 1..Len(Declared(p)) :
              /\ i # j
              /\ IsKind(Declared(p)[i], PromptOp)
              /\ IsKind(Declared(p)[j], PromptOp)
              /\ Target(p, GetValue(Declared(p)[i])) = d
              /\ Target(p, GetValue(Declared(p)[j])) = d

\* C3: when a document is included repeatedly, every document of the tree
\* can be parsed and none references one of its ancestors, neither walk
\* fails with CircularReference.
C3_RepeatedInclusionLegal ==
    err.kind = "CircularReference" =>
        ~(RepeatedInclusion /\ \A d \in Tree : WellFormed(d) /\ ~OnCycle(d))

CurrentDocument ==
    IF Top.fn = "processPromptFile" THEN rootDoc ELSE Abs(Top.resolvedPath)

\* C4: in the execution walk the base directory is the directory of the
\* document whose operations are running, at every depth and again after
\* a nested document has returned, so every file and prompt reference is
\* resolved against the directory of the document that declares it.
C4_ExecutionPathScoping ==
    [][/\ (pc' = "execute" /\ stack' # <<>>) =>
              Abs(ctx'.basePath) = Dir(CurrentDocument')
       /\ readLog' # readLog =>
              /\ Front(readLog') = readLog
              /\ Abs(Last(readLog').path) =
                     Target(DocAt(Front(Last(readLog').position)),
                            GetValue(OpAt(Last(readLog').position)))
       /\ parseLog' # parseLog =>
              /\ Front(parseLog') = parseLog
              /\ Last(parseLog').phase = "execute" =>
                     Last(parseLog').path = DocAt(Last(parseLog').position)]_vars

C4_Witness ==
    /\ Succeeded
    /\ Len(readLog) = 2
    /\ Abs(readLog[1].path) = subF /\ Len(readLog[1].position) = 2
    /\ Abs(readLog[2].path) = absF /\ Len(readLog[2].position) = 1

\* C5: in the validation walk every prompt reference is resolved against
\* the directory of the document that contains it, so each document the
\* walk parses is the one its position in the tree names.
C5_ValidationPathScoping ==
    \A k \in 1..Len(parseLog) :
        parseLog[k].phase = "validate" =>
            parseLog[k].path = DocAt(parseLog[k].position)

\* C6: for a tree in which every document parses and none lies on a cycle,
\* with files present, commands succeeding and the default budget,
\* processPromptFile succeeds and its loop has collected exactly one
\* section per operation of the root document, the i-th being the result
\* of the i-th operation, a prompt operation giving the expansion of its
\* nested document.
C6_OneSectionPerOperation ==
    (Done /\ args.maxWords = DefaultMaxWords /\ err.kind # "WriteFailed"
          /\ Favourable) =>
        /\ err = NoError
        /\ stack # <<>>
        /\ Top.sections = ExpectedSections

\* C7: the commands run so far are exactly the commands that come before
\* the current position in the depth-first, in-place expansion of the
\* tree, in that order; a successful run has run all of them in that order.
C7_CommandsInDepthFirstOrder ==
    LET expected == ExpectedCommands(rootDoc, <<>>, MaxDepth)
    IN  IF pc = "execute" /\ stack # <<>>
        THEN cmdLog = SelectSeq(expected, LAMBDA e : Precedes(e.position, Position))
        ELSE IF Succeeded
        THEN cmdLog = expected
        ELSE cmdLog = <<>> \/ IsPrefix(cmdLog, expected)

C7_Witness ==
    /\ Succeeded
    /\ Declared(rootDoc) = <<opPrompt(relN), opCommand(cmd1)>>
    /\ cmdLog = <<[command |-> cmd2, position |-> <<1, 2>>],
                  [command |-> cmd1, position |-> <<2>>]>>

\* C8: once an operation has failed no further operation is executed: no
\* command is run, no file is read, no document is parsed, nothing is
\* written to the diagnostic stream before processPromptFile returns, and
\* the error stays the one of that first failure.
C8_FailFast ==
    [][err # NoError =>
          /\ err' = err
          /\ UNCHANGED <<cmdLog, readLog, parseLog, files, cmds>>
          /\ pc # "done" => stderr' = stderr]_vars

C8_Witness ==
    /\ Done
    /\ ExecutionStarted
    /\ err.kind = "FileNotFound"
    /\ Declared(rootDoc) = <<opPrompt(relN), opCommand(cmd1)>>
    /\ Declared(absN) = <<opFile(relF), opCommand(cmd2)>>
    /\ cmdLog = <<>>
    /\ readLog = <<>>

\* C9: the standard output stream and the output file change in one step
\* only, taken with no error, when the loop over the root document has
\* finished every operation; after a failure nothing is written.
C9_NoOutputOnFailure ==
    [][(stdout' # stdout \/ destFile' # destFile) =>
          /\ err = NoError
          /\ pc = "execute"
          /\ Len(stack) = 1
          /\ LoopDone
          /\ pc' = "done"]_vars

C9_Witness ==
    /\ Done
    /\ err.kind = "CommandFailed"
    /\ Len(cmdLog) = 2
    /\ args.outputFile = outTxt
    /\ destFile = Some(oldOutput)
    /\ stdout = <<>>

\* C10: for a favourable tree whose resolved content has N words, a budget
\* of N makes processPromptFile succeed and a budget of N-1 makes it fail
\* with WordLimitExceeded, current N and limit N-1.
C10_WordBudgetBoundary ==
    (Done /\ Favourable) =>
        /\ args.maxWords = ResolvedWords => err = NoError
        /\ args.maxWords = ResolvedWords - 1 =>
              err = ErrWordLimitExceeded(ResolvedWords, ResolvedWords - 1)

\* the text the run has delivered: printed, or written to the output file
Delivered ==
    IF args.outputFile = <<>> THEN stdout
    ELSE IF destFile = None THEN <<>> ELSE destFile[1]

\* C11: whenever processPromptFile succeeds with budget B, the compiled
\* output it has printed or written holds at most B words.
C11_OutputWithinBudget ==
    Succeeded => countWords(Delivered) <= args.maxWords

\* C12: a command that exits with 0 yields a section with its output; one
\* that exits with 1 also puts a warning on the diagnostic stream, and the
\* loop goes on to the next operation; any other outcome (another exit
\* code, a signal, a shell that did not start) fails the walk with
\* CommandFailed carrying the command, and no section is made of its output.
C12_CommandExitPolicy ==
    [][cmdLog' # cmdLog =>
          LET command == GetValue(CurrentOp)
              o == cmds'[command][1]
              section == ContentSection(command, o.output, CommandOp)
              yielded ==
                  /\ err' = NoError =>
                        /\ pc' = pc
                        /\ Len(stack') = Len(stack)
                        /\ stack'[Len(stack)].i = Top.i + 1
                        /\ stack'[Len(stack)].sections = Append(Top.sections, section)
                  /\ err' # NoError => err'.kind = "WordLimitExceeded"
          IN  /\ (o.started /\ o.exit = 0) =>
                    /\ stderr' = stderr
                    /\ yielded
              /\ (o.started /\ o.exit = 1) =>
                    /\ stderr' = Append(stderr, Warning(command))
                    /\ yielded
              /\ ~(o.started /\ o.exit \in {0, 1}) =>
                    /\ err' = ErrCommandFailed(command)
                    /\ pc' = "executeFailed"
                    /\ stack' = stack
                    /\ stderr' = stderr]_vars

C12_Witness ==
    /\ Succeeded
    /\ cmds[cmd1] = Some(CmdWarn)
    /\ cmdLog = <<[command |-> cmd1, position |-> <<1>>],
                  [command |-> cmd2, position |-> <<2, 1>>]>>
    /\ stderr = <<Warning(cmd1)>>
    /\ Len(Top.sections) = 2
    /\ Top.sections[1].Content = CmdWarn.output

\* the fields of an operation entry that are populated
Variants(op) == {k \in {"File", "Prompt", "Command", "Text"} : op[k] # None}

KindOf(k) ==
    CASE k = "File" -> FileOp
      [] k = "Prompt" -> PromptOp
      [] k = "Command" -> CommandOp
      [] k = "Text" -> TextOp

\* the file at path holds a document with the prompt key
HasPromptKey(path) ==
    docs[path].exists /\ docs[path].yamlOK /\ docs[path].Prompt # None

Entries(path) == docs[path].Prompt[1]

\* a document with the prompt key and exactly one field in every entry
Accepted(path) ==
    /\ HasPromptKey(path)
    /\ \A i \in 1..Len(Entries(path)) : Cardinality(Variants(Entries(path)[i])) = 1

\* C13: a document parses only with the prompt key and exactly one populated
\* field in every entry; the first entry with none populated is rejected
\* with OperationEmpty, with several populated with OperationMultiple; for
\* an accepted entry GetType is the kind of its populated field; a rejected
\* document in the tree, root or nested, makes processPromptFile fail.
C13_ExactlyOneVariant ==
    /\ \A path \in DOMAIN docs :
          /\ parsePromptFile(path).err = NoError <=> Accepted(path)
          /\ (HasPromptKey(path) /\ ~Accepted(path)) =>
                LET bad == {i \in 1..Len(Entries(path)) :
                                Cardinality(Variants(Entries(path)[i])) # 1}
                    first == CHOOSE i \in bad : \A j \in bad : i <= j
                IN  parsePromptFile(path).err =
                        IF Variants(Entries(path)[first]) = {}
                        THEN ErrOperationEmpty ELSE ErrOperationMultiple
          /\ Accepted(path) =>
                \A i \in 1..Len(Entries(path)) :
                    \A k \in Variants(Entries(path)[i]) :
                        /\ GetType(Entries(path)[i]).err = NoError
                        /\ GetType(Entries(path)[i]).type = KindOf(k)
    /\ (Done /\ \E path \in Tree : ~Accepted(path)) => err # NoError

C13_Witness ==
    /\ Done
    /\ err = ErrOperationMultiple
    /\ docs[absMain] = Doc(<<opPrompt(relN)>>)
    /\ docs[absN] = Doc(<<opText(helloWorld),
                          Operation(Some(relF), None, None, Some(<<>>))>>)
    /\ cmdLog = <<>>
    /\ readLog = <<>>

\* C14: a file operation on a path that does not exist fails with
\* FileNotFound and opens nothing; on a readable file with a zero byte in
\* its first 512 bytes it fails with BinaryFile; a zero byte further on
\* does not; a file that cannot be opened is not taken as binary and the
\* operation fails with the error of the full read.
C14_FileOperationErrors ==
    [][Executing(FileOp) =>
          LET resolvedPath == ResolvePath(ctx, GetValue(CurrentOp))
              f == files'[Abs(resolvedPath)][1]
          IN  /\ ~f.exists =>
                    /\ err' = ErrFileNotFound(resolvedPath)
                    /\ readLog' = readLog
              /\ (f.exists /\ ~f.readable) => err' = ErrReadFailed(resolvedPath)
              /\ (f.exists /\ f.readable /\ f.firstZero \in 0..(BinaryProbe - 1)) =>
                    err' = ErrBinaryFile(resolvedPath)
              /\ (f.exists /\ f.readable /\ f.firstZero \notin 0..(BinaryProbe - 1)) =>
                    \/ err' = NoError
                    \/ err'.kind = "WordLimitExceeded"]_vars

C14_Witness ==
    /\ Succeeded
    /\ files[absF] = Some(DataLateZero)
    /\ Len(readLog) = 1
    /\ Len(Top.sections) = 1
    /\ Top.sections[1].Type = FileOp
    /\ Top.sections[1].Content = DataLateZero.content

EndsWithOneNewline(text) ==
    /\ text # <<>>
    /\ Last(text) = NL
    /\ Len(text) > 1 => text[Len(text) - 1] # NL

\* C16: the text compileOutput returns ends with exactly one line
\* terminator, for every sequence of sections (the empty one, sections of
\* empty content and of content ending with several line terminators
\* included) and every delimiter style: of the sequences every activation
\* has collected, and of the output a successful run delivers.
C16_SingleTrailingNewline ==
    /\ \A k \in 1..Len(stack) :
          "sections" \in DOMAIN stack[k] =>
              \A style \in ValidStyles :
                  EndsWithOneNewline(compileOutput(stack[k].sections, style))
    /\ Succeeded => EndsWithOneNewline(Delivered)

C16_Witness ==
    /\ Succeeded
    /\ args.delimiterStyle = "full"
    /\ cmds[cmd1] = Some(CmdSilent)
    /\ Len(Top.sections) = 2
    /\ Top.sections[1].Content = paddedText
    /\ Top.sections[2].Content = <<>>
    /\ stdout = <<Banner, NL, "BEGIN:", SP, "text", NL, Banner, NL>>
                \o paddedText
                \o <<NL, Banner, NL, "BEGIN:", SP>> \o cmd1
                \o <<NL, Banner, NL>>

\* a content that is not empty and does not begin with a line terminator
StartsWithText(content) == content # <<>> /\ Head(content) # NL

\* no file, command output or literal of the run is empty or begins with a
\* line terminator of its own
SourcesStartWithText ==
    /\ \A p \in DOMAIN files : files[p] # None => StartsWithText(files[p][1].content)
    /\ \A c \in DOMAIN cmds : cmds[c] # None => StartsWithText(cmds[c][1].output)
    /\ \A d \in Tree : \A i \in 1..Len(Declared(d)) :
          Declared(d)[i].Text # None => StartsWithText(Declared(d)[i].Text[1])

\* C17: the output of a successful run with at least one section never
\* begins with a line terminator, for every delimiter style and every kind
\* of first operation; stated for the runs whose files, command outputs
\* and literals begin with text themselves and whose output holds a word.
C17_NoLeadingNewline ==
    (Succeeded /\ Top.sections # <<>> /\ SourcesStartWithText /\ countWords(Delivered) > 0) =>
        Head(Delivered) # NL

\* the parts of the headers of the styles xml, minimal and full
HeaderTokens == {"<!--", "pcp-source:", "-->", "===", "PCP", "SOURCE:", "BEGIN:", Banner}

\* C18: with the style none the output of a successful run holds no part
\* of any header, whether of the sections of the root document or of the
\* sections of the nested documents, to any depth.
C18_NoneHasNoHeaders ==
    (Succeeded /\ args.delimiterStyle = "none") =>
        \A i \in 1..Len(Delivered) : Delivered[i] \notin HeaderTokens

C18_Witness ==
    /\ Succeeded
    /\ args.delimiterStyle = "none"
    /\ docs[absMain] = Doc(<<opCommand(cmd1), opPrompt(relN)>>)
    /\ docs[absN] = Doc(<<opText(helloWorld), opPrompt(relSubN)>>)
    /\ docs[subN] = Doc(<<opCommand(cmd2)>>)
    /\ Len(Top.sections) = 2
    /\ Top.sections[2].Type = PromptOp
    /\ cmds[cmd1] = Some(CmdOK)
    /\ cmds[cmd2] = Some(CmdOK)
    /\ stdout = CmdOK.output \o <<NL>> \o helloWorld \o <<NL, NL, NL>> \o CmdOK.output

\* an invocation main turns down before it calls processPromptFile
Refused ==
    args.help \/ args.promptFile = <<>> \/ args.delimiterStyle \notin ValidStyles

\* the warnings of the commands run so far that ended with exit status 1
RECURSIVE WarningsOf(_)
WarningsOf(log) ==
    IF log = <<>> THEN <<>>
    ELSE LET o == cmds[Last(log).command][1]
         IN  WarningsOf(Front(log))
             \o (IF ExitPolicy(o) = "warn" THEN <<Warning(Last(log).command)>> ELSE <<>>)

\* C19: the process exits with 0 exactly when processPromptFile returns no
\* error and with 1 when validation or execution fails or the arguments are
\* turned down; the standard output only ever holds the compiled output of
\* a successful run, and the diagnostic stream holds the warning of every
\* command that ended with status 1 and, after a failure, the error.
C19_ExitCodeAndStreams ==
    /\ stdout # <<>> =>
          /\ err = NoError
          /\ pc \in {"done", "exit0"}
          /\ args.outputFile = <<>>
          /\ stdout = compileOutput(Top.sections, args.delimiterStyle)
    /\ (Exited /\ ~Refused) =>
          /\ ExitCode = 0 <=> err = NoError
          /\ ExitCode = 1 <=> err # NoError
          /\ stderr = WarningsOf(cmdLog)
                      \o (IF err = NoError THEN <<>> ELSE <<ErrorLine(err)>>)
    /\ (Exited /\ Refused /\ ~args.help) => ExitCode = 1

C19_Witness ==
    /\ pc = "exit1"
    /\ args.outputFile = <<>>
    /\ docs[absMain] = Doc(<<opCommand(cmd1), opPrompt(relN)>>)
    /\ docs[absN] = Doc(<<opCommand(cmd2)>>)
    /\ cmds[cmd1] = Some(CmdWarn)
    /\ cmds[cmd2] = Some(CmdFail)
    /\ err = ErrCommandFailed(cmd2)
    /\ stderr = <<Warning(cmd1), ErrorLine(ErrCommandFailed(cmd2))>>
    /\ stdout = <<>>

\* C20: with the help flag main writes the usage and exits with 0; with no
\* -f value it writes 'Error: -f flag is required' and the usage to the
\* diagnostic stream and exits with 1; with a delimiter style outside xml,
\* minimal, full, none it exits with 1; in all three cases
\* processPromptFile is not called: no document is parsed, no file read,
\* no command run, nothing printed or written.
C20_ArgumentsBeforeEngine ==
    Refused =>
        /\ pc \in {"main", "exit0", "exit1"}
        /\ parseLog = <<>>
        /\ readLog = <<>>
        /\ cmdLog = <<>>
        /\ stdout = <<>>
        /\ stack = <<>>
        /\ Exited =>
              IF args.help
              THEN ExitCode = 0 /\ stderr = <<Usage>>
              ELSE IF args.promptFile = <<>>
              THEN ExitCode = 1 /\ stderr = <<FlagRequired, Usage>>
              ELSE ExitCode = 1 /\ stderr = <<InvalidStyle(args.delimiterStyle), Usage>>

C20_Witness ==
    /\ pc = "exit1"
    /\ ~args.help
    /\ args.promptFile = <<>>
    /\ stderr = <<FlagRequired, Usage>>
    /\ docs[absMain] = Doc(<<opCommand(cmd1)>>)
    /\ cmdLog = <<>>
    /\ parseLog = <<>>

\* no document on disk declares a command operation
CommandFree ==
    \A path \in DOMAIN docs :
        docs[path].Prompt # None =>
            \A i \in 1..Len(docs[path].Prompt[1]) :
                docs[path].Prompt[1][i].Command = None

C22_IncrementalBudget ==
    [][/\ (pc # "execute" /\ pc' = "execute") => ctx'.wordCount = 0
       /\ (pc = "execute" /\ err = NoError) =>
              /\ ctx.wordCount <= args.maxWords
              /\ ctx'.wordCount >= ctx.wordCount
              /\ err' = NoError => ctx'.wordCount <= args.maxWords
              /\ ctx'.wordCount > args.maxWords =>
                     err' = ErrWordLimitExceeded(ctx'.wordCount, args.maxWords)
              /\ err'.kind = "WordLimitExceeded" =>
                     /\ err'.Current = ctx'.wordCount
                     /\ err'.Limit = args.maxWords
                     /\ err'.Current > err'.Limit
       /\ pc = "executeFailed" => ctx' = ctx]_vars

C22_Witness ==
    /\ Done
    /\ args.maxWords = 2
    /\ docs[absMain] = Doc(<<opText(helloWorld), opFile(relF)>>)
    /\ err = ErrWordLimitExceeded(3, 2)
    /\ ctx.wordCount = 3
    /\ Len(readLog) = 1
    /\ stdout = <<>>

\* the document an activation on the stack is walking
FramePath(f) ==
    IF f.fn = "validatePromptFileStructure" THEN f.absPath
    ELSE IF f.fn = "processPromptFile" THEN rootDoc
    ELSE Abs(f.resolvedPath)

\* the documents that have been entered and whose subtree has not finished
Entered == {FramePath(stack[k]) : k \in 1..Len(stack)}

\* C23: in both walks the visited set is at every step the set of the
\* absolute paths of the documents entered and not yet finished, the root
\* document included, and it is empty when a walk has completed.
C23_VisitedIsRecursionStack ==
    /\ pc \in {"validate", "execute"} => ctx.visitedFiles = Entered
    /\ (Exited /\ err = NoError /\ args.promptFile # <<>> /\ ~args.help) =>
           ctx.visitedFiles = {}

\* the operation about to run is a prompt operation whose target is a
\* document that is being executed
ReentersDocument ==
    /\ Executing(PromptOp)
    /\ Abs(ResolvePath(ctx, GetValue(CurrentOp))) \in Entered

\* no document is being walked by two activations at once
NoReentry(st) ==
    \A j, k \in 1..Len(st) :
        j # k => Abs(IF st[j].fn = "processPromptFile" THEN args.promptFile
                     ELSE st[j].resolvedPath)
                 # Abs(IF st[k].fn = "processPromptFile" THEN args.promptFile
                       ELSE st[k].resolvedPath)

\* C24: in the execution walk a prompt operation whose target is a
\* document being executed, the root document included, fails with
\* CircularReference before the target is parsed or any of its operations
\* runs, so no document is executed inside an activation of itself.
C24_ExecutionDetectsCycles ==
    [][/\ ReentersDocument =>
              /\ err'.kind = "CircularReference"
              /\ parseLog' = parseLog
              /\ stack' = stack
       /\ pc' = "execute" => NoReentry(stack')]_vars

\* C25: the Path of a CircularReference error holds the absolute path of
\* every document on the recursion stack when the cycle is detected, from
\* the root document down to the one that holds the offending reference,
\* and no other path.
C25_CyclePathIsRecursionStack ==
    [][(err = NoError /\ err'.kind = "CircularReference") =>
           err'.Path = Entered]_vars

\* C26: the execution walk begins with a context of its own: whatever the
\* validation walk has visited, the visited set is empty, the word total
\* is 0 and the base directory is the directory of the root document.
C26_FreshExecutionContext ==
    [][(pc # "execute" /\ pc' = "execute") =>
           /\ ctx'.visitedFiles = {}
           /\ ctx'.wordCount = 0
           /\ ctx'.basePath = Dir(args.promptFile)
           /\ ctx'.maxWords = args.maxWords
           /\ ctx'.delimiterStyle = args.delimiterStyle]_vars

C26_Witness ==
    /\ pc = "execute"
    /\ Len(stack) = 1
    /\ Top.i = 1
    /\ Declared(rootDoc) = <<opPrompt(relN), opCommand(cmd1)>>
    /\ Len(parseLog) = 3
    /\ parseLog[2].phase = "validate"
    /\ parseLog[2].path = absN
    /\ ctx.visitedFiles = {}
    /\ ctx.wordCount = 0
    /\ ctx.basePath = Cwd

\* the errors that come from the structure of the documents
StructuralErrors == {"FileNotFound", "InvalidYAML", "MissingPromptKey", "OperationEmpty", "OperationMultiple", "CircularReference"}

\* C27: the validation walk has no effect outside its own context: it
\* runs no command, reads no data file, writes nothing and adds no word;
\* its errors are those of the structure of the documents, so a missing
\* data file or a failing command is no validation error.
C27_ValidationHasNoEffects ==
    [][(pc \in {"start", "validate", "validateFailed"}) =>
           /\ UNCHANGED <<files, cmds, cmdLog, readLog, stdout, stderr, destFile>>
           /\ err' # NoError =>
                  /\ err'.kind \in StructuralErrors
                  /\ err'.kind = "FileNotFound" => Abs(err'.File) \notin DataPaths
           /\ ctx'.wordCount = 0]_vars

C27_Witness ==
    /\ Done
    /\ previous = None
    /\ Declared(rootDoc) = <<opCommand(cmd1), opPrompt(relN)>>
    /\ docs[absN] = Doc(<<opFile(relF), opCommand(cmd2)>>)
    /\ files[absF] = Some(DataAbsent)
    /\ err = ErrCommandFailed(cmd1)
    /\ Len(cmdLog) = 1
    /\ readLog = <<>>
    /\ Len(parseLog) = 3
    /\ parseLog[2] = [phase |-> "validate", path |-> absN, position |-> <<2>>]

\* each child section's header followed by its content, in order
HeadedSections(promptPath, allSections, delimiterStyle) ==
    Flatten([i \in 1..Len(allSections) |->
                formatSectionHeader(promptPath \o <<"->">> \o allSections[i].Source,
                                    delimiterStyle)
                \o allSections[i].Content])

\* C28: the section a prompt operation with the path P yields has the
\* source P, the type of a prompt operation, and as content the headers
\* and contents of its child sections in declaration order, each header
\* made from the template of the delimiter style and the label
\* P->(source of the child).
C28_PromptSectionIsHeadedChildren ==
    [][(pc = "execute" /\ LoopDone /\ Top.fn = "processPromptOperation"
        /\ err' = NoError) =>
           LET section == Last(stack'[Len(stack')].sections)
           IN  /\ section.Source = Top.promptPath
               /\ section.Type = PromptOp
               /\ section.Content = HeadedSections(Top.promptPath, Top.sections,
                                                   args.delimiterStyle)]_vars

\* the source label of the section of an operation that is no prompt
\* operation
LeafLabel(op) == IF IsKind(op, TextOp) THEN <<"text">> ELSE GetValue(op)

\* the prompt paths that lead from the root document to the operation at
\* the position, as written, and the label of that operation, joined by ->
RECURSIVE ChainLabel(_, _)
ChainLabel(position, k) ==
    IF k = Len(position) THEN LeafLabel(OpAt(position))
    ELSE GetValue(OpAt(SubSeq(position, 1, k))) \o <<"->">> \o ChainLabel(position, k + 1)

\* the positions of the operations of documents nested one and two deep
NestedPositions == UNION {[1..k -> 1..MaxOps] : k \in 2..3}

Contains(text, piece) ==
    \E i \in 0..(Len(text) - Len(piece)) : SubSeq(text, i + 1, i + Len(piece)) = piece

\* C29: in the output of a successful run, the header of the section of an
\* operation declared in a document nested d levels deep names the whole
\* chain P1->P2->...->Pd->S of the prompt paths that lead to it and its own
\* source label, for every depth d >= 1.
C29_ProvenanceChain ==
    (Succeeded /\ args.delimiterStyle # "none") =>
        \A position \in NestedPositions :
            (OpAt(position) # opEmpty /\ ~IsKind(OpAt(position), PromptOp)) =>
                Contains(Delivered,
                         Tail(formatSectionHeader(ChainLabel(position, 1),
                                                  args.delimiterStyle)))

\* the section the step has handed to the loop of the caller
Yielded == Last(stack'[Len(stack')].sections)

\* C30: the source of a section is fixed by the kind of its operation: the
\* path as written for a file operation (not the resolved path), the
\* prompt path as written for a prompt operation, the command string for a
\* command operation and the token text for a text operation; the type of
\* the section is the kind of the operation.
C30_SourceLabelsByKind ==
    [][/\ (pc = "execute" /\ AtOperation /\ ~IsKind(CurrentOp, PromptOp)
           /\ pc' = "execute") =>
              /\ Len(stack') = Len(stack)
              /\ Len(stack'[Len(stack')].sections) = Len(Top.sections) + 1
              /\ Yielded.Type = GetType(CurrentOp).type
              /\ Yielded.Source = (CASE IsKind(CurrentOp, FileOp) -> CurrentOp.File[1]
                                     [] IsKind(CurrentOp, CommandOp) -> CurrentOp.Command[1]
                                     [] IsKind(CurrentOp, TextOp) -> <<"text">>)
       /\ (pc = "execute" /\ LoopDone /\ Len(stack) > 1 /\ pc' = "execute") =>
              /\ Yielded.Type = PromptOp
              /\ IsKind(stack[Len(stack) - 1].ops[stack[Len(stack) - 1].i], PromptOp)
              /\ Yielded.Source = stack[Len(stack) - 1].ops[stack[Len(stack) - 1].i].Prompt[1]]_vars

C30_Witness ==
    /\ pc = "execute"
    /\ Len(stack) = 2
    /\ Top.promptPath = relSubN
    /\ Top.i = 3
    /\ Top.sections[1].Source = relF
    /\ Top.sections[1].Type = FileOp
    /\ readLog[1].path = subF
    /\ Top.sections[2].Source = cmd2
    /\ Top.sections[2].Type = CommandOp

\* the table of header templates: the header of the source S in a style
StyleTable(S, style) ==
    CASE style = "minimal" -> <<NL, "===", SP, "PCP", SP, "SOURCE:", SP>> \o S \o <<SP, "===", NL>>
      [] style = "full" -> <<NL, Banner, NL, "BEGIN:", SP>> \o S \o <<NL, Banner, NL>>
      [] style = "none" -> <<NL>>
      [] OTHER -> <<NL, "<!--", SP, "pcp-source:", SP>> \o S \o <<SP, "-->", NL>>

\* every section's header and content in order, the first header without
\* its leading line terminator, no header at all in the style none
HeadersAndContents(sections, style) ==
    Flatten([i \in 1..Len(sections) |->
                (IF style = "none" THEN <<>>
                 ELSE IF i = 1 THEN Tail(StyleTable(sections[i].Source, style))
                 ELSE StyleTable(sections[i].Source, style))
                \o sections[i].Content])

\* the four styles and one that is unknown
AnyStyles == ValidStyles \cup {"bogus"}

\* C31: up to the line terminators at its end, the text compileOutput
\* returns is, for a style other than none, the header and the content of
\* every section in order, only the first header without its leading line
\* terminator, and for the style none the contents alone;
\* formatSectionHeader returns the template of the table for the four
\* styles and the xml template for an unknown style.
C31_HeadersRendered ==
    /\ Succeeded =>
           TrimRightNL(Delivered) = TrimRightNL(HeadersAndContents(Top.sections, args.delimiterStyle))
    /\ \A k \in 1..Len(stack) :
           "sections" \in DOMAIN stack[k] =>
               \A style \in AnyStyles :
                   /\ TrimRightNL(compileOutput(stack[k].sections, style)) = TrimRightNL(HeadersAndContents(stack[k].sections, style))
                   /\ \A i \in 1..Len(stack[k].sections) :
                          formatSectionHeader(stack[k].sections[i].Source, style) = StyleTable(stack[k].sections[i].Source, style)

C31_Witness ==
    /\ Succeeded
    /\ args.delimiterStyle = "minimal"
    /\ docs[absMain] = Doc(<<opText(paddedText), opFile(relF)>>)
    /\ files[absF] = Some(DataText)
    /\ Len(Top.sections) = 2
    /\ stdout = <<"===", SP, "PCP", SP, "SOURCE:", SP, "text", SP, "===", NL>>
                \o paddedText
                \o <<NL, "===", SP, "PCP", SP, "SOURCE:", SP>> \o relF \o <<SP, "===", NL>>
                \o DataText.content

\* C32: the content of every section handed to compileOutput ends with
\* exactly one line terminator, whatever the kind of its operation.
C32_ContentEndsWithOneNewline ==
    \A k \in 1..Len(stack) :
        "sections" \in DOMAIN stack[k] =>
            \A i \in 1..Len(stack[k].sections) :
                EndsWithOneNewline(stack[k].sections[i].Content)

\* C33: once the validation walk has succeeded and the execution walk has
\* begun, the execution walk does
\* not fail with CircularReference, InvalidYAML, a schema error or a
\* missing prompt document, and it parses no document the validation walk
\* has not parsed.
C33_ValidationSettlesStructure ==
    ExecutionStarted =>
        /\ err.kind \notin {"CircularReference", "InvalidYAML", "MissingPromptKey", "OperationEmpty", "OperationMultiple"}
        /\ err.kind = "FileNotFound" => Abs(err.File) \in DataPaths
        /\ \A i \in 1..Len(parseLog) :
               parseLog[i].phase = "execute" =>
                   \E j \in 1..Len(parseLog) :
                       /\ parseLog[j].phase = "validate"
                       /\ parseLog[j].path = parseLog[i].path

\* C34: after a successful execution walk the running word total is the
\* number of words of the contents of the top-level sections: every word
\* has been added once, at whatever depth it was produced.
C34_WordsChargedOnce ==
    Succeeded => ctx.wordCount = SumWords(Top.sections)

\* C35: every run ends: whatever the documents, cycles of prompt
\* references included, the validation walk and the execution walk each
\* come to an end, in success or in an error, and the program exits.
C35_Terminates == <>Exited

C35_Witness ==
    /\ pc = "exit1"
    /\ err.kind = "CircularReference"
    /\ docs[absMain] = Doc(<<opCommand(cmd1), opPrompt(relSubN)>>)
    /\ docs[subN] = Doc(<<opPrompt(upMain)>>)
    /\ ExecutionStarted
    /\ Len(cmdLog) = 2


====
